---- MODULE Spec2Model ----
(***************************************************************************)
(* The in-memory key-value store with single-level transactions of         *)
(* src/in_memory_db.py and src/InMemoryDB.py.  The two files hold the same  *)
(* class InMemoryDB and differ in commit() only: in_memory_db.py installs a *)
(* copy of the transaction dict as the main state, InMemoryDB.py installs   *)
(* the transaction dict object itself.  Both variants are driven by the     *)
(* same sequence of calls.                                                  *)
(*                                                                         *)
(* Python objects are records [type, val]; dicts live in a heap and the     *)
(* fields main_state and transaction_state hold references to them (or      *)
(* None), so that sharing one dict object between the two fields shows.     *)
(***************************************************************************)
EXTENDS Integers, FiniteSets, Sequences, TLC

\* Integer values range over -1..MaxInt: a negative value, 0 and positive ones.
MaxInt == 1

\* The two variants of the class, by source file.
Impl == {"in_memory_db.py", "InMemoryDB.py"}

\* The keys callers use (the keys of the tests' scenarios).
Keys == {"A", "B"}

--------------------------------------------------------------------------
\* Python objects.

Obj(t, v) == [type |-> t, val |-> v]

None == Obj("NoneType", 0)

PyInt(n) == Obj("int", n)

\* A reference to the dict object at heap address a.
Ref(a) == Obj("dict", a)

IntValues == {PyInt(n) : n \in (0 - 1)..MaxInt}

\* True (an int for isinstance, as bool subclasses int) and a str.
OtherValues == {Obj("bool", 1), Obj("str", 0)}

\* The values callers pass to put.
Values == IntValues \cup OtherValues

\* isinstance(value, int)
isinstance_int(value) == value.type \in {"int", "bool"}

--------------------------------------------------------------------------
\* dict objects: functions from the keys present to their values.

EmptyDict == << >>

\* d.get(key): the value, or None when the key is not present.
dict_get(d, key) == IF key \in DOMAIN d THEN d[key] ELSE None

\* d[key] = value
dict_setitem(d, key, value) ==
    [k \in DOMAIN d \cup {key} |-> IF k = key THEN value ELSE d[k]]

\* The address of a newly allocated object: one no live object has.
NewAddr(h) == CHOOSE a \in 1..(Cardinality(DOMAIN h) + 1) : a \notin DOMAIN h

\* d.copy(): a new dict object with the contents of the dict at ref.
\* Gives the heap with the new object and the reference to it.
dict_copy(h, ref) ==
    LET a == NewAddr(h)
    IN  [heap |-> [x \in DOMAIN h \cup {a} |-> IF x = a THEN h[ref.val] ELSE h[x]],
         ref  |-> Ref(a)]

\* Reference counting: a dict that neither field refers to is freed.  Heap
\* addresses are names only (the code compares them by identity alone), so the
\* live dicts are renamed: the main dict is 1, a distinct transaction dict 2.
\* (main_state is never None when calls run one after the other.)
Collect(self) ==
    LET m == self.main_state
        t == self.transaction_state
        mt == [a \in (IF m = None THEN {} ELSE {1})
                       \cup (IF t = None \/ t = m THEN {} ELSE {2}) |->
                  IF a = 1 THEN self.heap[m.val] ELSE self.heap[t.val]]
    IN  [heap |-> mt, main_state |-> IF m = None THEN None ELSE Ref(1),
         transaction_state |-> IF t = None THEN None ELSE IF t = m THEN Ref(1) ELSE Ref(2)]

--------------------------------------------------------------------------
\* The outcome of a call: the object after it, the exception class raised
\* ("" when the call returns) and the value returned.

Return(self, ret) == [self |-> Collect(self), raised |-> "", ret |-> ret]

Raise(self, exc) == [self |-> self, raised |-> exc, ret |-> None]

\* InMemoryDB.__init__
InMemoryDB_init ==
    [heap |-> (1 :> EmptyDict), main_state |-> Ref(1), transaction_state |-> None]

\* begin_transaction without the copy: the transaction works on the main dict.
begin_transaction_no_copy(self) ==
    IF self.transaction_state # None
    THEN Raise(self, "Exception")
    ELSE Return([self EXCEPT !.transaction_state = self.main_state], None)

\* begin_transaction without the check: a second begin starts over.
begin_transaction_nested(self) ==
    LET c == dict_copy(self.heap, self.main_state)
    IN  Return([self EXCEPT !.heap = c.heap, !.transaction_state = c.ref], None)

\* begin_transaction that takes the copy before it checks.
begin_transaction_restarts(self) ==
    LET c == dict_copy(self.heap, self.main_state)
        s == Collect([self EXCEPT !.heap = c.heap, !.transaction_state = c.ref])
    IN  IF self.transaction_state # None THEN Raise(s, "Exception") ELSE Return(s, None)

\* begin_transaction starting from an empty dict of changes.
begin_transaction_empty(self) ==
    IF self.transaction_state # None
    THEN Raise(self, "Exception")
    ELSE Return([self EXCEPT !.heap = self.heap @@ (NewAddr(self.heap) :> EmptyDict),
                             !.transaction_state = Ref(NewAddr(self.heap))], None)

\* InMemoryDB.begin_transaction
begin_transaction(self) ==
    IF self.transaction_state # None
    THEN Raise(self, "Exception")
    ELSE LET c == dict_copy(self.heap, self.main_state)
         IN  Return([self EXCEPT !.heap = c.heap, !.transaction_state = c.ref], None)

\* put that also writes the main dict.
put_write_through(self, key, value) ==
    IF ~isinstance_int(value)
    THEN Raise(self, "ValueError")
    ELSE IF self.transaction_state = None
    THEN Raise(self, "NoTransactionError")
    ELSE LET a == self.transaction_state.val
             m == self.main_state.val
         IN  Return([self EXCEPT !.heap =
                        [x \in DOMAIN self.heap |->
                            IF x \in {a, m} THEN dict_setitem(self.heap[x], key, value)
                            ELSE self.heap[x]]], None)

\* put that writes the main dict when no transaction is open.
put_autocommit(self, key, value) ==
    IF ~isinstance_int(value)
    THEN Raise(self, "ValueError")
    ELSE LET a == IF self.transaction_state = None THEN self.main_state.val
                  ELSE self.transaction_state.val
         IN  Return([self EXCEPT !.heap[a] = dict_setitem(self.heap[a], key, value)],
                    None)

\* put that rebinds the transaction dict to one holding the new entry only.
put_replaces(self, key, value) ==
    IF ~isinstance_int(value)
    THEN Raise(self, "ValueError")
    ELSE IF self.transaction_state = None
    THEN Raise(self, "NoTransactionError")
    ELSE LET a == self.transaction_state.val
         IN  Return([self EXCEPT !.heap[a] = dict_setitem(EmptyDict, key, value)], None)

\* put that checks the value after it has stored it.
put_late_check(self, key, value) ==
    IF self.transaction_state = None
    THEN IF ~isinstance_int(value) THEN Raise(self, "ValueError")
         ELSE Raise(self, "NoTransactionError")
    ELSE LET a == self.transaction_state.val
             s == Collect([self EXCEPT !.heap[a] = dict_setitem(self.heap[a], key, value)])
         IN  IF ~isinstance_int(value) THEN Raise(s, "ValueError") ELSE Return(s, None)

\* put with its two checks in the other order: the transaction first.
put_transaction_first(self, key, value) ==
    IF self.transaction_state = None
    THEN Raise(self, "NoTransactionError")
    ELSE IF ~isinstance_int(value)
    THEN Raise(self, "ValueError")
    ELSE LET a == self.transaction_state.val
         IN  Return([self EXCEPT !.heap[a] = dict_setitem(self.heap[a], key, value)],
                    None)

\* InMemoryDB.put
put(self, key, value) ==
    IF ~isinstance_int(value)
    THEN Raise(self, "ValueError")
    ELSE IF self.transaction_state = None
    THEN Raise(self, "NoTransactionError")
    ELSE LET a == self.transaction_state.val
         IN  Return([self EXCEPT !.heap[a] = dict_setitem(self.heap[a], key, value)],
                    None)

\* get testing the truth of the result instead of "is None": 0 reads as absent.
get_falsy_absent(self, key) ==
    LET result == IF self.transaction_state # None
                  THEN dict_get(self.heap[self.transaction_state.val], key)
                  ELSE dict_get(self.heap[self.main_state.val], key)
    IN  IF result = None \/ result.val = 0 THEN Return(self, None) ELSE Return(self, result)

\* get with 0 as the default of the lookup: a missing key reads as 0.
get_default_zero(self, key) ==
    LET d == IF self.transaction_state # None
             THEN self.heap[self.transaction_state.val]
             ELSE self.heap[self.main_state.val]
    IN  Return(self, IF key \in DOMAIN d THEN d[key] ELSE PyInt(0))

\* get subscripting the dict: a missing key raises KeyError.
get_keyerror(self, key) ==
    LET d == IF self.transaction_state # None
             THEN self.heap[self.transaction_state.val]
             ELSE self.heap[self.main_state.val]
    IN  IF key \in DOMAIN d THEN Return(self, d[key]) ELSE Raise(self, "KeyError")

\* InMemoryDB.get
get(self, key) ==
    LET result == IF self.transaction_state # None
                  THEN dict_get(self.heap[self.transaction_state.val], key)
                  ELSE dict_get(self.heap[self.main_state.val], key)
    IN  IF result = None THEN Return(self, None) ELSE Return(self, result)

\* commit that ends the transaction without installing its contents.
in_memory_db_commit_discards(self) ==
    IF self.transaction_state = None
    THEN Raise(self, "NoTransactionError")
    ELSE Return([self EXCEPT !.transaction_state = None], None)

\* commit that refuses a transaction that changed nothing.
in_memory_db_commit_rejects_empty(self) ==
    IF self.transaction_state = None
    THEN Raise(self, "NoTransactionError")
    ELSE IF self.heap[self.transaction_state.val] = self.heap[self.main_state.val]
    THEN Raise(self, "NoTransactionError")
    ELSE LET c == dict_copy(self.heap, self.transaction_state)
         IN  Return([self EXCEPT !.heap = c.heap, !.main_state = c.ref,
                                 !.transaction_state = None], None)

\* InMemoryDB.commit of src/in_memory_db.py: installs a copy.
in_memory_db_commit(self) ==
    IF self.transaction_state = None
    THEN Raise(self, "NoTransactionError")
    ELSE LET c == dict_copy(self.heap, self.transaction_state)
         IN  Return([self EXCEPT !.heap = c.heap, !.main_state = c.ref,
                                 !.transaction_state = None], None)

\* commit that installs the transaction dict and does not end the transaction.
InMemoryDB_commit_keeps_open(self) ==
    IF self.transaction_state = None
    THEN Raise(self, "NoTransactionError")
    ELSE Return([self EXCEPT !.main_state = self.transaction_state], None)

\* InMemoryDB.commit of src/InMemoryDB.py: installs the transaction dict itself.
InMemoryDB_commit(self) ==
    IF self.transaction_state = None
    THEN Raise(self, "NoTransactionError")
    ELSE Return([self EXCEPT !.main_state = self.transaction_state,
                             !.transaction_state = None], None)

commit(i, self) ==
    IF i = "in_memory_db.py" THEN in_memory_db_commit(self) ELSE InMemoryDB_commit(self)

\* rollback with the body of commit: the transaction dict is installed.
rollback_installs(self) ==
    IF self.transaction_state = None
    THEN Raise(self, "NoTransactionError")
    ELSE Return([self EXCEPT !.main_state = self.transaction_state,
                             !.transaction_state = None], None)

\* rollback without the check: nothing to discard, nothing raised.
rollback_idle_noop(self) == Return([self EXCEPT !.transaction_state = None], None)

\* InMemoryDB.rollback
rollback(self) ==
    IF self.transaction_state = None
    THEN Raise(self, "NoTransactionError")
    ELSE Return([self EXCEPT !.transaction_state = None], None)

--------------------------------------------------------------------------
\* The state: per variant, the object's heap and two fields, the last call
\* with its outcome, and the caller's record of the transaction it drives.

VARIABLES heap, main_state, transaction_state, last, txn

\* For callers on several threads: the variant they share an object of, and
\* per thread the call it is in, the statement it is at (pc), the outcome of
\* its last finished call, whether another thread has run during its call
\* (overlapped), whether it is the thread that ran last (ran), and whether
\* all its calls so far ran with no other thread inside a call (alone).
VARIABLES variant, thread

vars == <<heap, main_state, transaction_state, last, txn, variant, thread>>

Threads == {"t1", "t2"}

\* A thread that is in no call.
ThreadIdle ==
    [pc |-> "idle", op |-> "", key |-> "", value |-> None,
     raised |-> "", ret |-> None, overlapped |-> FALSE, ran |-> FALSE,
     alone |-> TRUE]

\* The InMemoryDB object of variant i.
Self(i) ==
    [heap |-> heap[i], main_state |-> main_state[i],
     transaction_state |-> transaction_state[i]]

\* The contents of the committed (main) mapping of an object.
MainOf(self) == self.heap[self.main_state.val]

\* The caller's record: the main state's contents when the transaction began
\* (base), the last value put under each key since (puts), how it stands
\* ("none" before the first begin, "open", "commit", "rollback"), the keys of
\* all successful puts since the store was created (written), and the puts of
\* the committed transactions applied in order to the empty mapping (durable).
Track(t, op, key, value, self, out) ==
    IF out.raised # "" THEN t
    ELSE CASE op = "begin_transaction" ->
                  [t EXCEPT !.base = MainOf(self), !.puts = EmptyDict, !.ended = "open"]
           [] op = "put" -> [t EXCEPT !.puts = dict_setitem(t.puts, key, value),
                                      !.written = t.written \cup {key}]
           [] op = "commit" -> [t EXCEPT !.ended = op,
                                         !.durable = [k \in DOMAIN t.durable \cup DOMAIN t.puts |->
                                                         IF k \in DOMAIN t.puts THEN t.puts[k]
                                                         ELSE t.durable[k]]]
           [] op = "rollback" -> [t EXCEPT !.ended = op]
           [] OTHER -> t

\* The method op of variant i called on the object self.
Method(i, self, op, key, value) ==
    CASE op = "begin_transaction" -> begin_transaction(self)
      [] op = "put" -> put(self, key, value)
      [] op = "get" -> get(self, key)
      [] op = "commit" -> commit(i, self)
      [] op = "rollback" -> rollback(self)

Invoke(i, op, key, value) == Method(i, Self(i), op, key, value)

\* One call, made on both variants.
Call(op, key, value) ==
    LET self == [i \in Impl |-> Self(i)]
        out == [i \in Impl |-> Invoke(i, op, key, value)]
    IN  /\ heap' = [i \in Impl |-> out[i].self.heap]
        /\ main_state' = [i \in Impl |-> out[i].self.main_state]
        /\ transaction_state' = [i \in Impl |-> out[i].self.transaction_state]
        /\ last' = [i \in Impl |->
                      [op |-> op, key |-> key, value |-> value,
                       raised |-> out[i].raised, ret |-> out[i].ret]]
        /\ txn' = [i \in Impl |-> Track(txn[i], op, key, value, self[i], out[i])]
        /\ UNCHANGED <<variant, thread>>

Init ==
    /\ heap = [i \in Impl |-> InMemoryDB_init.heap]
    /\ main_state = [i \in Impl |-> InMemoryDB_init.main_state]
    /\ transaction_state = [i \in Impl |-> InMemoryDB_init.transaction_state]
    /\ last = [i \in Impl |->
                 [op |-> "__init__", key |-> "", value |-> None,
                  raised |-> "", ret |-> None]]
    /\ txn = [i \in Impl |->
                [base |-> EmptyDict, puts |-> EmptyDict, ended |-> "none",
                 written |-> {}, durable |-> EmptyDict]]
    /\ variant = "both"
    /\ thread = [t \in Threads |-> ThreadIdle]

BeginTransaction ==
    /\ Call("begin_transaction", "", None)

Put ==
    \E key \in Keys, value \in Values :
        /\ Call("put", key, value)

Get ==
    \E key \in Keys :
        /\ Call("get", key, None)

Commit ==
    /\ Call("commit", "", None)

Rollback ==
    /\ Call("rollback", "", None)

Next == BeginTransaction \/ Put \/ Get \/ Commit \/ Rollback

Spec == Init /\ [][Next]_vars

\* The calls a caller can make: method, key and value.
Calls ==
    {<<op, "", None>> : op \in {"begin_transaction", "commit", "rollback"}}
        \cup {<<"get", k, None>> : k \in Keys}
        \cup {<<"put", k, v>> : k \in Keys, v \in Values}

--------------------------------------------------------------------------
\* Callers on several threads sharing one object.  The methods take no lock,
\* so a thread can be preempted between two statements of a method: a method
\* runs statement by statement, each statement named by the method and its
\* line in src/in_memory_db.py.  A statement that uses None as a dict raises
\* what Python raises (AttributeError for a method of None, TypeError for an
\* item assignment to None).

\* The outcome of a statement: the object after it, what it raised or
\* returned, and the statement the thread is at next ("idle": the call is over).
Goto(self, pc) == [self |-> Collect(self), raised |-> "", ret |-> None, next |-> pc]

Finish(out) == [self |-> out.self, raised |-> out.raised, ret |-> out.ret, next |-> "idle"]

\* begin_transaction without its check.
begin_transaction_36_no_check(self) == Goto(self, "begin_transaction_41")

\* if self.transaction_state is not None: raise Exception(...)
begin_transaction_36(self) ==
    IF self.transaction_state # None
    THEN Finish(Raise(self, "Exception"))
    ELSE Goto(self, "begin_transaction_41")

\* self.transaction_state = self.main_state.copy()
begin_transaction_41(self) ==
    IF self.main_state = None
    THEN Finish(Raise(self, "AttributeError"))
    ELSE LET c == dict_copy(self.heap, self.main_state)
         IN  Finish(Return([self EXCEPT !.heap = c.heap, !.transaction_state = c.ref],
                           None))

\* if not isinstance(value, int): raise ValueError(...)
\* if self.transaction_state is None: raise NoTransactionError(...)
put_52(self, value) ==
    IF ~isinstance_int(value)
    THEN Finish(Raise(self, "ValueError"))
    ELSE IF self.transaction_state = None
    THEN Finish(Raise(self, "NoTransactionError"))
    ELSE Goto(self, "put_61")

\* self.transaction_state[key] = value
put_61(self, key, value) ==
    IF self.transaction_state = None
    THEN Finish(Raise(self, "TypeError"))
    ELSE LET a == self.transaction_state.val
         IN  Finish(Return([self EXCEPT !.heap[a] = dict_setitem(self.heap[a], key, value)],
                           None))

\* if self.transaction_state is not None:
get_72(self) ==
    IF self.transaction_state # None THEN Goto(self, "get_75") ELSE Goto(self, "get_79")

\* result = self.transaction_state.get(key), and the return of lines 83-88
get_75(self, key) ==
    IF self.transaction_state = None
    THEN Finish(Raise(self, "AttributeError"))
    ELSE LET result == dict_get(self.heap[self.transaction_state.val], key)
         IN  IF result = None THEN Finish(Return(self, None))
             ELSE Finish(Return(self, result))

\* result = self.main_state.get(key), and the return of lines 83-88
get_79(self, key) ==
    IF self.main_state = None
    THEN Finish(Raise(self, "AttributeError"))
    ELSE LET result == dict_get(self.heap[self.main_state.val], key)
         IN  IF result = None THEN Finish(Return(self, None))
             ELSE Finish(Return(self, result))

\* if self.transaction_state is None: raise NoTransactionError(...)
commit_95(self) ==
    IF self.transaction_state = None
    THEN Finish(Raise(self, "NoTransactionError"))
    ELSE Goto(self, "commit_101")

\* src/in_memory_db.py: self.main_state = self.transaction_state.copy()
in_memory_db_commit_101(self) ==
    IF self.transaction_state = None
    THEN Finish(Raise(self, "AttributeError"))
    ELSE LET c == dict_copy(self.heap, self.transaction_state)
         IN  Goto([self EXCEPT !.heap = c.heap, !.main_state = c.ref], "commit_104")

\* src/InMemoryDB.py (line 99): self.main_state = self.transaction_state
InMemoryDB_commit_99(self) ==
    Goto([self EXCEPT !.main_state = self.transaction_state], "commit_104")

\* self.transaction_state = None
commit_104(self) == Finish(Return([self EXCEPT !.transaction_state = None], None))

\* if self.transaction_state is None: raise NoTransactionError(...)
rollback_113(self) ==
    IF self.transaction_state = None
    THEN Finish(Raise(self, "NoTransactionError"))
    ELSE Goto(self, "rollback_117")

\* self.transaction_state = None
rollback_117(self) == Finish(Return([self EXCEPT !.transaction_state = None], None))

\* The calls the threads make: all five methods, on one key, with two
\* integer values (what interleaves is the accesses to the two fields).
ThreadCalls ==
    {<<op, "", None>> : op \in {"begin_transaction", "commit", "rollback"}}
        \cup {<<"get", "A", None>>}
        \cup {<<"put", "A", v>> : v \in {PyInt(0), PyInt(1)}}

\* The first statement of a method.
FirstStatement(op) ==
    CASE op = "begin_transaction" -> "begin_transaction_36"
      [] op = "put" -> "put_52"
      [] op = "get" -> "get_72"
      [] op = "commit" -> "commit_95"
      [] op = "rollback" -> "rollback_113"

\* The statement pc of variant i run on the object self.
Statement(i, pc, self, key, value) ==
    CASE pc = "begin_transaction_36" -> begin_transaction_36(self)
      [] pc = "begin_transaction_41" -> begin_transaction_41(self)
      [] pc = "put_52" -> put_52(self, value)
      [] pc = "put_61" -> put_61(self, key, value)
      [] pc = "get_72" -> get_72(self)
      [] pc = "get_75" -> get_75(self, key)
      [] pc = "get_79" -> get_79(self, key)
      [] pc = "commit_95" -> commit_95(self)
      [] pc = "commit_101" ->
             IF i = "in_memory_db.py" THEN in_memory_db_commit_101(self)
             ELSE InMemoryDB_commit_99(self)
      [] pc = "commit_104" -> commit_104(self)
      [] pc = "rollback_113" -> rollback_113(self)
      [] pc = "rollback_117" -> rollback_117(self)

\* Thread t runs the statement pc of its call op(key, value): the object of
\* the shared variant changes, t moves on, and every other thread that is
\* inside a call has now been overlapped, as has t's call by theirs.
Run(t, pc, op, key, value, first) ==
    LET out == Statement(variant, pc, Self(variant), key, value)
        others == {u \in Threads \ {t} : thread[u].pc # "idle"}
    IN  /\ heap' = [heap EXCEPT ![variant] = out.self.heap]
        /\ main_state' = [main_state EXCEPT ![variant] = out.self.main_state]
        /\ transaction_state' =
               [transaction_state EXCEPT ![variant] = out.self.transaction_state]
        /\ thread' =
               [u \in Threads |->
                   IF u = t
                   THEN [pc |-> out.next, op |-> op, key |-> key, value |-> value,
                         raised |-> out.raised, ret |-> out.ret,
                         overlapped |-> IF first THEN FALSE ELSE thread[t].overlapped,
                         ran |-> TRUE,
                         alone |-> thread[t].alone /\ others = {}]
                   ELSE IF u \in others
                   THEN [thread[u] EXCEPT !.overlapped = TRUE, !.ran = FALSE,
                                          !.alone = FALSE]
                   ELSE [thread[u] EXCEPT !.ran = FALSE]]
        /\ UNCHANGED <<last, txn, variant>>

\* A thread enters a method and runs its first statement.
ThreadCall ==
    \E t \in Threads, c \in ThreadCalls :
        /\ thread[t].pc = "idle"
        /\ Run(t, FirstStatement(c[1]), c[1], c[2], c[3], TRUE)

\* A thread inside a method runs its next statement.
ThreadStep ==
    \E t \in Threads :
        /\ thread[t].pc # "idle"
        /\ Run(t, thread[t].pc, thread[t].op, thread[t].key, thread[t].value, FALSE)

InitThreads ==
    /\ heap = [i \in Impl |-> InMemoryDB_init.heap]
    /\ main_state = [i \in Impl |-> InMemoryDB_init.main_state]
    /\ transaction_state = [i \in Impl |-> InMemoryDB_init.transaction_state]
    /\ last = [i \in Impl |->
                 [op |-> "__init__", key |-> "", value |-> None,
                  raised |-> "", ret |-> None]]
    /\ txn = [i \in Impl |->
                [base |-> EmptyDict, puts |-> EmptyDict, ended |-> "none",
                 written |-> {}, durable |-> EmptyDict]]
    /\ variant \in Impl
    /\ thread = [t \in Threads |-> ThreadIdle]

NextThreads == ThreadCall \/ ThreadStep

SpecThreads == InitThreads /\ [][NextThreads]_vars

--------------------------------------------------------------------------
\* Views of the state used by the properties.

Idle(i) == transaction_state[i] = None

TransactionOpen(i) == transaction_state[i] # None

\* The contents of the committed mapping.
Committed(i) == heap[i][main_state[i].val]

\* The contents of the staged mapping (of an open transaction).
Staged(i) == heap[i][transaction_state[i].val]

\* The mapping S overridden by the mapping M.
Override(S, M) ==
    [k \in DOMAIN S \cup DOMAIN M |-> IF k \in DOMAIN M THEN M[k] ELSE S[k]]

\* The last call returned (raised nothing).
Succeeded(c) == c.raised = ""

--------------------------------------------------------------------------
\* C1. Commit durability: once the transaction begun on committed mapping S
\* (txn.base) has been committed after the successful puts M (txn.puts, the
\* last value per key), the store is Idle, the committed mapping is S
\* overridden by M, and a get outside a transaction returns that mapping's
\* value for its key (None when it has none).
C1_CommitDurability ==
    \A i \in Impl :
        txn[i].ended = "commit" =>
            LET expected == Override(txn[i].base, txn[i].puts)
            IN  /\ Idle(i)
                /\ Committed(i) = expected
                /\ \A k \in Keys \ DOMAIN txn[i].puts :
                       dict_get(Committed(i), k) = dict_get(txn[i].base, k)
                /\ \A k \in DOMAIN txn[i].puts :
                       dict_get(Committed(i), k) = txn[i].puts[k]
                /\ last[i].op = "get" =>
                       /\ Succeeded(last[i])
                       /\ last[i].ret = dict_get(expected, last[i].key)

\* A commit of a transaction that overwrote A (committed before with another
\* value) and left the committed B alone, followed by a get.
C1_Witness ==
    \A i \in Impl :
        /\ txn[i].ended = "commit"
        /\ DOMAIN txn[i].base = {"A", "B"}
        /\ DOMAIN txn[i].puts = {"A"}
        /\ txn[i].puts["A"] # txn[i].base["A"]
        /\ last[i].op = "get"

\* C2. Rollback isolation: once the transaction begun on committed mapping S
\* has been rolled back, whatever was put in it, the committed mapping is
\* exactly S, there is no staged mapping, and a get outside a transaction
\* returns what S holds for its key.
C2_RollbackIsolation ==
    \A i \in Impl :
        txn[i].ended = "rollback" =>
            /\ transaction_state[i] = None
            /\ Committed(i) = txn[i].base
            /\ DOMAIN Committed(i) = DOMAIN txn[i].base
            /\ last[i].op = "get" =>
                   /\ Succeeded(last[i])
                   /\ last[i].ret = dict_get(txn[i].base, last[i].key)

\* A rollback of a transaction that overwrote the committed A and added B,
\* followed by a get.
C2_Witness ==
    \A i \in Impl :
        /\ txn[i].ended = "rollback"
        /\ DOMAIN txn[i].base = {"A"}
        /\ DOMAIN txn[i].puts = {"A", "B"}
        /\ txn[i].puts["A"] # txn[i].base["A"]
        /\ last[i].op = "get"

SelfNext(i) ==
    [heap |-> heap'[i], main_state |-> main_state'[i],
     transaction_state |-> transaction_state'[i]]

\* C4. The committed mapping changes only in a successful commit: every other
\* call, failing commits included, leaves its contents as they were, and a
\* successful commit makes them the contents the staged mapping had just
\* before.
C4_CommittedOnlyByCommit ==
    [][\A i \in Impl :
          IF last'[i].op = "commit" /\ Succeeded(last'[i])
          THEN /\ TransactionOpen(i)
               /\ Committed(i)' = Staged(i)
          ELSE Committed(i)' = Committed(i)]_vars

\* A successful commit that changed the committed mapping.
C4_Witness ==
    \A i \in Impl :
        /\ last[i].op = "commit"
        /\ Succeeded(last[i])
        /\ txn[i].base # EmptyDict
        /\ Committed(i) # txn[i].base

\* C5. Two states, Idle first (no staged mapping, empty committed mapping);
\* begin_transaction succeeds exactly when Idle and ends TransactionOpen;
\* commit and rollback succeed exactly when TransactionOpen and end Idle; put
\* and get keep the state; there is never more than one staged mapping; and
\* no state is terminal: begin succeeds from Idle, commit and rollback both
\* succeed from TransactionOpen and lead to Idle.
C5_StateMachine ==
    /\ [](\A i \in Impl :
            /\ last[i].op = "__init__" => (Idle(i) /\ Committed(i) = EmptyDict)
            /\ Cardinality(DOMAIN heap[i] \ {main_state[i].val}) <= 1
            /\ Idle(i) =>
                   /\ begin_transaction(Self(i)).raised = ""
                   /\ begin_transaction(Self(i)).self.transaction_state # None
            /\ TransactionOpen(i) =>
                   /\ commit(i, Self(i)).raised = ""
                   /\ commit(i, Self(i)).self.transaction_state = None
                   /\ rollback(Self(i)).raised = ""
                   /\ rollback(Self(i)).self.transaction_state = None)
    /\ [][\A i \in Impl :
            CASE last'[i].op = "begin_transaction" ->
                   /\ Succeeded(last'[i]) <=> Idle(i)
                   /\ TransactionOpen(i)'
              [] last'[i].op \in {"commit", "rollback"} ->
                   /\ Succeeded(last'[i]) <=> TransactionOpen(i)
                   /\ Idle(i)'
              [] OTHER -> Idle(i)' <=> Idle(i)]_vars

\* A second cycle: a transaction rolled back after an earlier one committed.
C5_Witness ==
    \A i \in Impl :
        /\ last[i].op = "rollback"
        /\ Succeeded(last[i])
        /\ Idle(i)
        /\ Committed(i) # EmptyDict

\* C6. begin_transaction while a transaction is open raises Exception
\* ("Another transaction is already in progress.") and changes nothing: the
\* staged and committed mappings and the caller's transaction stay as they
\* were, the transaction stays open, every put made so far still reads back
\* and a commit still promotes them.
C6_BeginWhileOpen ==
    /\ [][\A i \in Impl :
            (last'[i].op = "begin_transaction" /\ TransactionOpen(i)) =>
                /\ last'[i].raised = "Exception"
                /\ SelfNext(i) = Self(i)
                /\ Staged(i)' = Staged(i)
                /\ Committed(i)' = Committed(i)
                /\ TransactionOpen(i)']_vars
    /\ [](\A i \in Impl :
            (last[i].op = "begin_transaction" /\ ~Succeeded(last[i])) =>
                /\ last[i].raised = "Exception"
                /\ TransactionOpen(i)
                /\ \A k \in DOMAIN txn[i].puts : get(Self(i), k).ret = txn[i].puts[k]
                /\ MainOf(commit(i, Self(i)).self) = Override(txn[i].base, txn[i].puts))

\* A failed begin in a transaction that has put a value.
C6_Witness ==
    \A i \in Impl :
        /\ last[i].op = "begin_transaction"
        /\ last[i].raised = "Exception"
        /\ txn[i].puts # EmptyDict
        /\ Staged(i) # Committed(i)

\* C7. put(key, value) with an integer value while no transaction is open
\* raises NoTransactionError for every key and every committed mapping, and
\* changes nothing: the committed mapping is as before, no staged mapping is
\* created, the store is still Idle.
C7_PutOutsideTransaction ==
    [][\A i \in Impl :
          (last'[i].op = "put" /\ isinstance_int(last'[i].value) /\ Idle(i)) =>
              /\ last'[i].raised = "NoTransactionError"
              /\ Committed(i)' = Committed(i)
              /\ SelfNext(i) = Self(i)
              /\ Idle(i)']_vars

\* A put of an integer refused while the committed mapping holds entries.
C7_Witness ==
    \A i \in Impl :
        /\ last[i].op = "put"
        /\ last[i].value \in IntValues
        /\ last[i].raised = "NoTransactionError"
        /\ Committed(i) # EmptyDict

\* C8. commit() and rollback() while no transaction is open raise
\* NoTransactionError and change neither mapping: the committed mapping is as
\* before, there is still no staged mapping, and the same call made again
\* fails the same way.
C8_CommitRollbackOutsideTransaction ==
    /\ [][\A i \in Impl :
            (last'[i].op \in {"commit", "rollback"} /\ Idle(i)) =>
                /\ last'[i].raised = "NoTransactionError"
                /\ Committed(i)' = Committed(i)
                /\ SelfNext(i) = Self(i)
                /\ Idle(i)']_vars
    /\ [](\A i \in Impl :
            (last[i].op \in {"commit", "rollback"} /\ ~Succeeded(last[i])) =>
                /\ last[i].raised = "NoTransactionError"
                /\ Idle(i)
                /\ Invoke(i, last[i].op, "", None) =
                       [self |-> Self(i), raised |-> "NoTransactionError", ret |-> None])

\* A rollback refused while the committed mapping holds entries.
C8_Witness ==
    \A i \in Impl :
        /\ last[i].op = "rollback"
        /\ last[i].raised = "NoTransactionError"
        /\ Committed(i) # EmptyDict

\* C9. A successful begin_transaction makes the staged mapping a copy of the
\* committed mapping, in a dict of its own: get(k) right after it returns for
\* every key what get(k) returned right before, and the committed mapping is
\* unchanged.
C9_BeginCopiesCommitted ==
    [][\A i \in Impl :
          (last'[i].op = "begin_transaction" /\ Succeeded(last'[i])) =>
              /\ Staged(i)' = Committed(i)
              /\ transaction_state'[i] # main_state'[i]
              /\ Committed(i)' = Committed(i)
              /\ \A k \in Keys : get(SelfNext(i), k).ret = get(Self(i), k).ret]_vars

\* A transaction just begun on a committed mapping holding both keys.
C9_Witness ==
    \A i \in Impl :
        /\ last[i].op = "begin_transaction"
        /\ Succeeded(last[i])
        /\ DOMAIN Committed(i) = {"A", "B"}
        /\ Staged(i) = Committed(i)

\* C10. A successful put(key, value) in an open transaction sets the staged
\* entry of key to value and changes nothing else: every other key's staged
\* entry (or absence) is as before, the committed mapping is as before and
\* the transaction is still open.
C10_PutFrame ==
    [][\A i \in Impl :
          (last'[i].op = "put" /\ Succeeded(last'[i])) =>
              /\ TransactionOpen(i) /\ TransactionOpen(i)'
              /\ last'[i].key \in DOMAIN Staged(i)'
              /\ Staged(i)'[last'[i].key] = last'[i].value
              /\ DOMAIN Staged(i)' = DOMAIN Staged(i) \cup {last'[i].key}
              /\ \A k \in DOMAIN Staged(i) \ {last'[i].key} : Staged(i)'[k] = Staged(i)[k]
              /\ Committed(i)' = Committed(i)
              /\ main_state'[i] # transaction_state'[i]]_vars

\* A put overwriting the value A inherited from the committed mapping, with
\* B staged as well.
C10_Witness ==
    \A i \in Impl :
        /\ last[i].op = "put"
        /\ Succeeded(last[i])
        /\ last[i].key = "A"
        /\ "A" \in DOMAIN txn[i].base
        /\ txn[i].base["A"] # last[i].value
        /\ "B" \in DOMAIN Staged(i)

\* C11. A key that no successful put has ever named, in any transaction since
\* the store was created, reads as None in every state, Idle or
\* TransactionOpen, whatever was written, committed or rolled back under
\* other keys.
C11_NeverWrittenAbsent ==
    \A i \in Impl :
        \A k \in Keys \ txn[i].written :
            /\ get(Self(i), k).raised = ""
            /\ get(Self(i), k).ret = None
            /\ (last[i].op = "get" /\ last[i].key = k) =>
                   (Succeeded(last[i]) /\ last[i].ret = None)

\* get(B) in an open transaction, B never written, A written and committed.
C11_Witness ==
    \A i \in Impl :
        /\ txn[i].written = {"A"}
        /\ TransactionOpen(i)
        /\ "A" \in DOMAIN Committed(i)
        /\ last[i].op = "get"
        /\ last[i].key = "B"

\* C12. get never fails and only reads: in both states and for every key,
\* present or not, it raises nothing and leaves both mappings and the state
\* as they were; Idle it returns the committed mapping's value for the key,
\* TransactionOpen the staged mapping's (None when the key is missing).
C12_GetReadOnly ==
    /\ [](\A i \in Impl : \A k \in Keys : get(Self(i), k).raised = "")
    /\ [][\A i \in Impl :
            last'[i].op = "get" =>
                /\ Succeeded(last'[i])
                /\ SelfNext(i) = Self(i)
                /\ Idle(i)' <=> Idle(i)
                /\ last'[i].ret =
                       IF Idle(i) THEN dict_get(Committed(i), last'[i].key)
                       ELSE dict_get(Staged(i), last'[i].key)]_vars

\* get of a key missing from the staged mapping of an open transaction that
\* holds another key with a value differing from the committed one.
C12_Witness ==
    \A i \in Impl :
        /\ last[i].op = "get"
        /\ TransactionOpen(i)
        /\ last[i].key \notin DOMAIN Staged(i)
        /\ Staged(i) # Committed(i)
        /\ last[i].ret = None

\* A value that is not an integer for Python: neither an int nor a bool
\* (bool is a subclass of int).
NotAnInteger(value) == value.type \notin {"int", "bool"}

\* C13. put with a value that is not an integer, in an open transaction,
\* raises ValueError and changes nothing: the staged entry of the key keeps
\* its value or absence, the other staged entries and the committed mapping
\* are as before, and the transaction stays open.
C13_PutInvalidValue ==
    [][\A i \in Impl :
          (last'[i].op = "put" /\ NotAnInteger(last'[i].value) /\ TransactionOpen(i)) =>
              /\ last'[i].raised = "ValueError"
              /\ TransactionOpen(i)'
              /\ Staged(i)' = Staged(i)
              /\ dict_get(Staged(i)', last'[i].key) = dict_get(Staged(i), last'[i].key)
              /\ Committed(i)' = Committed(i)
              /\ SelfNext(i) = Self(i)
              /\ txn'[i] = txn[i]]_vars

\* A str refused for a key the open transaction has put an integer under.
C13_Witness ==
    \A i \in Impl :
        /\ last[i].op = "put"
        /\ last[i].value = Obj("str", 0)
        /\ last[i].raised = "ValueError"
        /\ TransactionOpen(i)
        /\ last[i].key \in DOMAIN txn[i].puts
        /\ Staged(i) # Committed(i)

\* C14, as claimed: put while Idle raises NoTransactionError for every value,
\* a value that is not an integer included.  (put leaves the state it was
\* called in, so the store is Idle after the call exactly when it was before.)
C14_Claimed ==
    \A i \in Impl :
        (last[i].op = "put" /\ Idle(i)) => last[i].raised = "NoTransactionError"

\* C14, amended: put while Idle always fails and changes nothing; it raises
\* NoTransactionError when the value is an integer and ValueError when it is
\* not, the check of the value coming before the check of the transaction.
C14_PutIdleErrorKind ==
    [][\A i \in Impl :
          (last'[i].op = "put" /\ Idle(i)) =>
              /\ last'[i].raised =
                     IF NotAnInteger(last'[i].value) THEN "ValueError"
                     ELSE "NoTransactionError"
              /\ SelfNext(i) = Self(i)
              /\ Idle(i)']_vars

\* A str put while Idle, refused with ValueError, the committed mapping
\* holding entries.
C14_Witness ==
    \A i \in Impl :
        /\ last[i].op = "put"
        /\ Idle(i)
        /\ NotAnInteger(last[i].value)
        /\ last[i].raised = "ValueError"
        /\ Committed(i) # EmptyDict

\* A newly created store brought to the machine state wanted, with nothing put.
FreshStore(idle) ==
    IF idle THEN InMemoryDB_init ELSE begin_transaction(InMemoryDB_init).self

\* C15. Errors depend on the machine state only: in every reachable state,
\* each call succeeds or fails, and with the same exception, exactly as it
\* does on a newly created store in the same machine state (so any two runs
\* in the same machine state agree, whatever their mappings hold and whatever
\* calls came before), and the two variants agree with each other.
C15_ErrorsDeterministic ==
    \A i \in Impl : \A c \in Calls :
        /\ Method(i, Self(i), c[1], c[2], c[3]).raised =
              Method(i, FreshStore(Idle(i)), c[1], c[2], c[3]).raised
        /\ \A j \in Impl :
              Idle(i) = Idle(j) =>
                  Method(i, Self(i), c[1], c[2], c[3]).raised =
                      Method(j, Self(j), c[1], c[2], c[3]).raised

\* A commit refused on an Idle store whose committed mapping holds both keys.
C15_Witness ==
    \A i \in Impl :
        /\ Idle(i)
        /\ DOMAIN Committed(i) = {"A", "B"}
        /\ last[i].op = "commit"
        /\ last[i].raised = "NoTransactionError"
        /\ txn[i].ended = "rollback"

\* C16. Staged view: while a transaction is open, the staged entry of every
\* key is the last value put under it in this transaction if there is one,
\* and the committed entry (or absence) otherwise; so the staged keys include
\* the committed keys, and get, which reads the staged mapping alone, returns
\* what a lookup in this transaction's puts and then in the committed mapping
\* gives.
C16_StagedView ==
    \A i \in Impl :
        TransactionOpen(i) =>
            /\ txn[i].ended = "open"
            /\ \A k \in Keys :
                   /\ dict_get(Staged(i), k) =
                          IF k \in DOMAIN txn[i].puts THEN txn[i].puts[k]
                          ELSE dict_get(Committed(i), k)
                   /\ get(Self(i), k).ret =
                          IF k \in DOMAIN txn[i].puts THEN txn[i].puts[k]
                          ELSE dict_get(Committed(i), k)
            /\ DOMAIN Committed(i) \subseteq DOMAIN Staged(i)

\* An open transaction that overwrote the committed A and left the committed
\* B to be read through.
C16_Witness ==
    \A i \in Impl :
        /\ TransactionOpen(i)
        /\ DOMAIN Committed(i) = {"A", "B"}
        /\ DOMAIN txn[i].puts = {"A"}
        /\ txn[i].puts["A"] # Committed(i)["A"]
        /\ last[i].op = "get"
        /\ last[i].key = "B"

\* C17. The variant whose commit installs a copy of the staged dict and the
\* variant whose commit installs the staged dict itself cannot be told apart:
\* after every sequence of calls the last call raised and returned the same
\* in both, every call that could come next raises and returns the same in
\* both, and the committed contents are the same; in neither variant are the
\* committed and the staged mapping one dict object while a transaction is
\* open, so a put never changes the committed mapping.
C17_CommitVariantsEquivalent ==
    /\ [](\A i, j \in Impl :
            /\ last[i] = last[j]
            /\ \A c \in Calls :
                   /\ Method(i, Self(i), c[1], c[2], c[3]).raised =
                          Method(j, Self(j), c[1], c[2], c[3]).raised
                   /\ Method(i, Self(i), c[1], c[2], c[3]).ret =
                          Method(j, Self(j), c[1], c[2], c[3]).ret
            /\ Committed(i) = Committed(j)
            /\ TransactionOpen(i) => transaction_state[i] # main_state[i])
    /\ [][\A i \in Impl :
            last'[i].op = "put" => Committed(i)' = Committed(i)]_vars

\* A put in a transaction begun after an earlier one was committed.
C17_Witness ==
    \A i \in Impl :
        /\ txn[i].durable # EmptyDict
        /\ TransactionOpen(i)
        /\ last[i].op = "put"
        /\ Succeeded(last[i])
        /\ "A" \in DOMAIN Committed(i)
        /\ Staged(i)["A"] # Committed(i)["A"]

\* C18. All-or-nothing visibility over any history: in every state the
\* committed mapping is the empty mapping with the puts of exactly the
\* committed transactions applied in order (txn.durable), never part of a
\* transaction's puts and never a put of a transaction rolled back or still
\* open; a get outside a transaction returns that mapping's value.
C18_AtomicVisibility ==
    \A i \in Impl :
        /\ Committed(i) = txn[i].durable
        /\ Idle(i) => \A k \in Keys : get(Self(i), k).ret = dict_get(txn[i].durable, k)
        /\ (Idle(i) /\ last[i].op = "get") =>
               last[i].ret = dict_get(txn[i].durable, last[i].key)

\* get(A) after the rollback of a transaction that put under A a value other
\* than the one an earlier transaction committed, and put B as well.
C18_Witness ==
    \A i \in Impl :
        /\ txn[i].ended = "rollback"
        /\ DOMAIN txn[i].puts = {"A", "B"}
        /\ DOMAIN txn[i].durable = {"A"}
        /\ txn[i].puts["A"] # txn[i].durable["A"]
        /\ last[i].op = "get"
        /\ last[i].key = "A"

\* C20. Keys are never removed: no call takes a key out of the committed
\* mapping, and a key of the committed mapping reads as a value, never None,
\* in every state, Idle or TransactionOpen; so once get(k) has returned a
\* value while Idle it returns a value ever after.
C20_KeysNeverRemoved ==
    /\ [][\A i \in Impl : DOMAIN Committed(i) \subseteq DOMAIN Committed(i)']_vars
    /\ [](\A i \in Impl : \A k \in DOMAIN Committed(i) :
            /\ get(Self(i), k).raised = ""
            /\ get(Self(i), k).ret # None
            /\ (last[i].op = "get" /\ last[i].key = k) => last[i].ret # None)

\* get(A) in the second transaction begun since A was committed, the first
\* of them rolled back after overwriting A.
C20_Witness ==
    \A i \in Impl :
        /\ "A" \in DOMAIN txn[i].durable
        /\ "A" \in DOMAIN txn[i].base
        /\ "B" \in txn[i].written \ DOMAIN Committed(i)
        /\ TransactionOpen(i)
        /\ txn[i].puts = EmptyDict
        /\ last[i].op = "get"
        /\ last[i].key = "A"

\* What a thread's check has established still holds at the statement that
\* relies on it: the transaction state is None where begin_transaction sets
\* it, and a dict where put writes it, commit installs it and rollback drops it.
CheckStillHolds(t) ==
    /\ thread[t].pc = "begin_transaction_41" => transaction_state[variant] = None
    /\ thread[t].pc \in {"put_61", "commit_101", "rollback_117", "get_75"} =>
           transaction_state[variant] # None

\* C19, as claimed: with two callers on one object the operations do not
\* interleave: no thread is between its check and its write with the checked
\* field changed by another, so no put runs into a transaction state already
\* cleared (TypeError, AttributeError), and two begin_transaction calls running
\* at the same time never both succeed.
C19_Claimed ==
    /\ \A t \in Threads :
           /\ CheckStillHolds(t)
           /\ thread[t].raised \notin {"TypeError", "AttributeError"}
    /\ ~ \A t \in Threads :
             /\ thread[t].pc = "idle"
             /\ thread[t].op = "begin_transaction"
             /\ thread[t].raised = ""
             /\ thread[t].overlapped

\* The callers have serialised their calls so far: no call has run while
\* another thread was inside a call.
Serialised == \A t \in Threads : thread[t].alone

\* C19, amended: the methods take no lock, so the check and the write of an
\* operation are one step only when the callers serialise their calls.  As
\* long as they have, an operation finds at its write what its check saw, no
\* call fails on a cleared transaction state, and every call has the outcome
\* and the effect of the method run in one piece: begin_transaction succeeds
\* only on an Idle store and put writes the staged mapping it checked.
C19_SerialisedIsAtomic ==
    /\ [](Serialised =>
            /\ main_state[variant] # None
            /\ \A t \in Threads :
                   /\ CheckStillHolds(t)
                   /\ thread[t].raised \notin {"TypeError", "AttributeError"})
    /\ [][Serialised' =>
            \A t \in Threads :
                (thread'[t].ran /\ thread'[t].pc = "idle") =>
                    LET c == thread'[t]
                        whole == Method(variant, Self(variant), c.op, c.key, c.value)
                    IN  IF thread[t].pc = "commit_104"
                        THEN /\ c.raised = ""
                             /\ transaction_state'[variant] = None
                             /\ MainOf(SelfNext(variant)) = MainOf(Self(variant))
                        ELSE /\ c.raised = whole.raised
                             /\ c.ret = whole.ret
                             /\ SelfNext(variant) = whole.self]_vars
    /\ [][Serialised' =>
            \A t \in Threads :
                (thread'[t].ran /\ thread[t].pc = "commit_101") =>
                    /\ TransactionOpen(variant)
                    /\ MainOf(SelfNext(variant)) = Staged(variant)]_vars

\* A put by one thread into the transaction that the other thread began, the
\* calls having run one after the other.
C19_Witness ==
    /\ Serialised
    /\ \E t, u \in Threads :
           /\ t # u
           /\ thread[t].pc = "idle" /\ thread[t].op = "put" /\ thread[t].raised = ""
           /\ thread[u].pc = "idle" /\ thread[u].op = "begin_transaction"
           /\ thread[u].raised = ""
           /\ Staged(variant) # Committed(variant)

====
